---------------------------- MODULE Spec2Model ----------------------------
(***************************************************************************)
(* SerialPortWriter (MultiInput/qt/serialportwriter.cpp): a QThread that   *)
(* opens a serial port, runs a three-step handshake and then writes the    *)
(* current payload in a loop until the destructor asks it to quit.         *)
(*                                                                         *)
(* Two threads are modelled: the worker (run) and the owner, which calls   *)
(* changeData any number of times and then the destructor.  The device is  *)
(* the environment: it may put bytes into the receive buffer at any time   *)
(* while the port is open.                                                 *)
(***************************************************************************)
EXTENDS Integers, Sequences, FiniteSets, TLC

(***************************************************************************)
(* Bounds of the model.                                                    *)
(***************************************************************************)
MaxReads == 5        \* blocking reads (waitForReadyRead) the worker performs
MaxRx == 2           \* bytes the receive buffer holds at once
MaxUpdates == 1      \* changeData calls the owner makes

(***************************************************************************)
(* Program constants.                                                      *)
(***************************************************************************)
ReadBufSize == 128   \* uint8_t readBuf[128]
NumSteps == 3        \* the three writeAndExpectResponse calls of a pass

\* serialportwriter.h is not part of the sources: the probe and response
\* bytes are the ones the specification gives (scenario A).
sync_bytes == <<85, 65, 13>>
sync_resp == <<170, 6, 10>>
\* m_quit has no initialiser in the constructor; the header's is assumed.
InitQuit == FALSE

\* Inputs the model draws from.
PortNames == {"", "COM1"}
InitPayload == <<1, 2>>
\* The k-th changeData call passes a value of its own, of length 3 or 2, so
\* that every payload version differs from every other in each byte.
NewPayloads(k) ==
    IF k % 2 = 1 THEN {<<2 * k + 1, 2 * k + 2, 2 * k + 3>>}
    ELSE {<<2 * k + 1, 2 * k + 2>>}
DeviceBytes == {170, 6, 10}

VARIABLES
    m_portName,  \* QString m_portName
    data,        \* QByteArray data (the payload)
    m_quit,      \* bool m_quit
    mutex,       \* the set of threads holding m_mutex
    wpc,         \* the worker's position in run()
    step,        \* the handshake step in progress (1..3), 0 outside a pass
    synced,      \* bool synced (local of run)
    ready,       \* the result of the last waitForReadyRead of a handshake step
    readBuf,     \* the bytes read(readBuf, 128) returned
    wbuf,        \* bytes of data copied so far by serial.write(data)
    portOpen,    \* the serial port is open
    rx,          \* bytes received from the device and not yet read
    wire,        \* the bytes of the last write to the port
    trace,       \* the signals emitted and the port operations, in order
    staleLast,   \* the last byte of rx arrived before the step's probe was sent
    discarded,   \* bytes the clear() of the step in progress dropped
    preClear,    \* bytes of rx that arrived before the clear() of the step
    nreads,      \* blocking reads completed
    readsAfterStop, \* blocking reads completed while m_quit was already set
    cycleVer,    \* changeData calls returned when the write cycle began
    opc,         \* the owner's position
    arg,         \* newData of the changeData call in progress
    cdIdx,       \* next byte of newData to assign
    hist,        \* the values passed to changeData, in call order
    returned     \* changeData calls that have returned

vars == <<m_portName, data, m_quit, mutex, wpc, step, synced, ready, readBuf,
          wbuf, portOpen, rx, wire, trace, staleLast, discarded, preClear,
          nreads, readsAfterStop, cycleVer, opc, arg, cdIdx, hist, returned>>

\* What the model records about the arrival of the bytes in rx.
arrivalVars == <<staleLast, discarded, preClear>>

workerVars == <<wpc, step, synced, ready, readBuf, wbuf, cycleVer>>
ownerVars == <<opc, arg, cdIdx, hist, returned>>

(***************************************************************************)
(* Names of the trace events.                                              *)
(***************************************************************************)
ProbeSent == <<"send:probe1", "send:probe2", "send:probe3">>
\* A variant with the text of stage 2 pasted into stage 3.
StageInfoPasted == <<"Info:stage1", "Info:stage2", "Info:stage2">>

StageInfo == <<"Info:stage1", "Info:stage2", "Info:stage3">>
\* A variant with the text of stage 3 pasted into stage 2.
StageTimeoutPasted == <<"Timeout:stage1", "Timeout:stage3", "Timeout:stage3">>

\* (run() has no timeout signal for stage 1; the first entry names the one
\* it would be.)
StageTimeout == <<"Timeout:stage1", "Timeout:stage2", "Timeout:stage3">>

Last(s) == s[Len(s)]
Min(a, b) == IF a < b THEN a ELSE b

(***************************************************************************)
(* Construction.                                                           *)
(***************************************************************************)
Init ==
    /\ m_portName \in PortNames
    /\ data = InitPayload
    /\ m_quit = InitQuit
    /\ mutex = {}
    /\ wpc = "run"
    /\ step = 0
    /\ synced = FALSE
    /\ ready = FALSE
    /\ readBuf = <<>>
    /\ wbuf = <<>>
    /\ portOpen = FALSE
    /\ rx = <<>>
    /\ wire = <<>>
    /\ trace = <<>>
    /\ staleLast = FALSE
    /\ discarded = 0
    /\ preClear = 0
    /\ nreads = 0
    /\ readsAfterStop = 0
    /\ cycleVer = 0
    /\ opc = "idle"
    /\ arg = <<>>
    /\ cdIdx = 0
    /\ hist = <<>>
    /\ returned = 0

(***************************************************************************)
(* QMutex.                                                                 *)
(***************************************************************************)
\* A variant of the mutex that excludes nobody.
MutexFreeNoExclusion == TRUE

MutexFree == mutex = {}

MutexLock(t) == MutexFree /\ mutex' = mutex \cup {t}

MutexUnlock(t) == mutex' = mutex \ {t}

(***************************************************************************)
(* The worker: SerialPortWriter::run.                                      *)
(***************************************************************************)
\* A variant that reports the empty name and goes on to open the port.
RunCheckPortNoReturn ==
    /\ wpc = "run"
    /\ trace' = IF m_portName = "" THEN Append(trace, "Error:noport")
                ELSE trace
    /\ wpc' = "open"
    /\ UNCHANGED <<arrivalVars, m_portName, data, m_quit, mutex, step, synced, ready,
                   readBuf, wbuf, portOpen, rx, wire, nreads, readsAfterStop,
                   cycleVer, ownerVars>>

\* if (m_portName.isEmpty()) { emit error(...); return; }
RunCheckPort ==
    /\ wpc = "run"
    /\ IF m_portName = ""
         THEN /\ trace' = Append(trace, "Error:noport")
              /\ wpc' = "done"
         ELSE /\ trace' = trace
              /\ wpc' = "open"
    /\ UNCHANGED <<arrivalVars, m_portName, data, m_quit, mutex, step, synced, ready,
                   readBuf, wbuf, portOpen, rx, wire, nreads, readsAfterStop,
                   cycleVer, ownerVars>>

\* A variant that reports the failed open and goes on to the handshake.
RunOpenNoReturn ==
    /\ wpc = "open"
    /\ \E ok \in BOOLEAN :
         /\ portOpen' = ok
         /\ trace' = IF ok THEN trace \o <<"port:open", "Info:opened",
                                           "Info:synchronizing">>
                     ELSE trace \o <<"port:open", "Error:open">>
    /\ wpc' = "hs_check"
    /\ UNCHANGED <<arrivalVars, m_portName, data, m_quit, mutex, step, synced, ready,
                   readBuf, wbuf, rx, wire, nreads, readsAfterStop, cycleVer,
                   ownerVars>>

\* serial.open(ReadWrite): the device decides whether it succeeds.
RunOpen ==
    /\ wpc = "open"
    /\ \E ok \in BOOLEAN :
         IF ok
           THEN /\ portOpen' = TRUE
                /\ trace' = trace \o <<"port:open", "Info:opened",
                                       "Info:synchronizing">>
                /\ wpc' = "hs_check"
           ELSE /\ portOpen' = FALSE
                /\ trace' = trace \o <<"port:open", "Error:open">>
                /\ wpc' = "done"
    /\ UNCHANGED <<arrivalVars, m_portName, data, m_quit, mutex, step, synced, ready,
                   readBuf, wbuf, rx, wire, nreads, readsAfterStop, cycleVer,
                   ownerVars>>

\* A variant that gives up the handshake after the first read.
HandshakeCondSinglePass == ~m_quit /\ ~synced /\ nreads = 0

\* A variant that goes on with the handshake after it has synced.
HandshakeCondNoSynced == ~m_quit

\* while(!m_quit && !synced)
HandshakeCond == ~m_quit /\ ~synced

\* The loop test; when it fails the code falls through to
\* emit message(tr("Synced successfully")) and the write loop.
HsCheck ==
    /\ wpc = "hs_check"
    /\ IF HandshakeCond
         THEN /\ step' = 1
              /\ wpc' = "h_clear"
              /\ trace' = trace
         ELSE /\ step' = 0
              /\ wpc' = "wl_check"
              /\ trace' = Append(trace, "Info:synced")
    /\ UNCHANGED <<arrivalVars, m_portName, data, m_quit, mutex, synced, ready, readBuf,
                   wbuf, portOpen, rx, wire, nreads, readsAfterStop, cycleVer,
                   ownerVars>>

\* A variant of clear() that leaves the received bytes in place.
ClearedOutputOnly(buf) == buf

\* QSerialPort::clear(): the receive buffer after the call.
Cleared(buf) == <<>>

\* writeAndExpectResponse: serial->clear()
HsClear ==
    /\ wpc = "h_clear"
    /\ rx' = Cleared(rx)
    /\ discarded' = Len(rx) - Len(rx')
    /\ preClear' = Len(rx')
    /\ staleLast' = FALSE
    /\ wpc' = "h_write"
    /\ UNCHANGED <<m_portName, data, m_quit, mutex, step, synced, ready,
                   readBuf, wbuf, portOpen, wire, trace, nreads,
                   readsAfterStop, cycleVer, ownerVars>>

\* writeAndExpectResponse: serial->write(&send, 1)
HsWrite ==
    /\ wpc = "h_write"
    /\ wire' = <<sync_bytes[step]>>
    /\ trace' = Append(trace, ProbeSent[step])
    /\ staleLast' = (rx # <<>>)
    /\ wpc' = "h_wait"
    /\ UNCHANGED <<discarded, preClear, m_portName, data, m_quit, mutex, step, synced, ready,
                   readBuf, wbuf, portOpen, rx, nreads, readsAfterStop,
                   cycleVer, ownerVars>>

\* One blocking read has completed.
CountRead ==
    /\ nreads' = nreads + 1
    /\ readsAfterStop' = IF m_quit THEN readsAfterStop + 1 ELSE readsAfterStop

\* writeAndExpectResponse: waitForReadyRead(100), then read(readBuf, 128).
\* With no byte within the window the wait returns false and nothing is read.
HsWait ==
    /\ wpc = "h_wait"
    /\ nreads < MaxReads
    /\ IF rx = <<>>
         THEN /\ ready' = FALSE
              /\ readBuf' = <<>>
              /\ rx' = rx
         ELSE /\ ready' = TRUE
              /\ readBuf' = SubSeq(rx, 1, Min(Len(rx), ReadBufSize))
              /\ rx' = SubSeq(rx, Min(Len(rx), ReadBufSize) + 1, Len(rx))
    /\ CountRead
    /\ staleLast' = FALSE
    /\ preClear' = preClear - Min(preClear, Len(readBuf'))
    /\ discarded' = 0
    /\ wpc' = "h_ret"
    /\ UNCHANGED <<m_portName, data, m_quit, mutex, step, synced, wbuf,
                   portOpen, wire, trace, cycleVer, ownerVars>>

\* A variant that compares the first byte read.
ExpectFirstByte(buf, numRead, expect) == numRead > 0 /\ buf[1] = expect

\* numRead > 0 && readBuf[numRead - 1] == expect
ExpectOK(buf, numRead, expect) == numRead > 0 /\ buf[numRead] = expect

\* The value writeAndExpectResponse returns.
StepResult == ready /\ ExpectOK(readBuf, Len(readBuf), sync_resp[step])

\* A variant that retries the step that failed.
ContinueSameStep == step' = step /\ wpc' = "h_clear"

\* continue: back to the test of the handshake loop, whose body starts at
\* step 1.
Continue == step' = 0 /\ wpc' = "hs_check"

\* A variant that reports the failure of every step.
FailEventsEveryStep(s) == <<StageTimeout[s]>>

\* The signals of a failed step: none for step 1 (else continue), the
\* timeout naming the stage for steps 2 and 3.
FailEvents(s) == IF s = 1 THEN <<>> ELSE <<StageTimeout[s]>>

\* What run() does with the value returned for the step.
HsReturn ==
    /\ wpc = "h_ret"
    /\ IF StepResult
         THEN /\ trace' = Append(trace, StageInfo[step])
              /\ IF step < NumSteps
                   THEN /\ step' = step + 1
                        /\ wpc' = "h_clear"
                        /\ synced' = synced
                   ELSE /\ step' = 0
                        /\ wpc' = "hs_check"
                        /\ synced' = TRUE
         ELSE /\ trace' = trace \o FailEvents(step)
              /\ Continue
              /\ synced' = synced
    /\ ready' = FALSE
    /\ readBuf' = <<>>
    /\ UNCHANGED <<arrivalVars, m_portName, data, m_quit, mutex, wbuf, portOpen, rx, wire,
                   nreads, readsAfterStop, cycleVer, ownerVars>>

\* A variant that gives up after a write cycle has timed out.
WriteCondStopOnTimeout == ~m_quit /\ Last(trace) # "Timeout:write"

\* A variant that never leaves the write loop.
WriteCondForever == TRUE

\* while (!m_quit)
WriteCond == ~m_quit

WlCheck ==
    /\ wpc = "wl_check"
    /\ IF WriteCond
         THEN /\ wpc' = "wl_lock"
              /\ cycleVer' = returned
         ELSE /\ wpc' = "close"
              /\ cycleVer' = cycleVer
    /\ UNCHANGED <<arrivalVars, m_portName, data, m_quit, mutex, step, synced, ready,
                   readBuf, wbuf, portOpen, rx, wire, trace, nreads,
                   readsAfterStop, ownerVars>>

\* m_mutex.lock()
WlLock ==
    /\ wpc = "wl_lock"
    /\ MutexLock("worker")
    /\ wpc' = "wl_write"
    /\ UNCHANGED <<arrivalVars, m_portName, data, m_quit, step, synced, ready, readBuf,
                   wbuf, portOpen, rx, wire, trace, nreads, readsAfterStop,
                   cycleVer, ownerVars>>

\* serial.write(data) copies the bytes of data into the port's write buffer,
\* one after the other.
WlCopyByte ==
    /\ wpc = "wl_write"
    /\ Len(wbuf) < Len(data)
    /\ wbuf' = Append(wbuf, data[Len(wbuf) + 1])
    /\ UNCHANGED <<arrivalVars, m_portName, data, m_quit, mutex, wpc, step, synced, ready,
                   readBuf, portOpen, rx, wire, trace, nreads, readsAfterStop,
                   cycleVer, ownerVars>>

WlWriteDone ==
    /\ wpc = "wl_write"
    /\ Len(wbuf) >= Len(data)
    /\ wire' = wbuf
    /\ wbuf' = <<>>
    /\ trace' = Append(trace, "send:data")
    /\ wpc' = "wl_unlock"
    /\ UNCHANGED <<arrivalVars, m_portName, data, m_quit, mutex, step, synced, ready,
                   readBuf, portOpen, rx, nreads, readsAfterStop, cycleVer,
                   ownerVars>>

\* A variant that keeps the mutex during the wait for the response.
WlUnlockMissing ==
    /\ wpc = "wl_unlock"
    /\ mutex' = mutex
    /\ wpc' = "wl_wait"
    /\ UNCHANGED <<arrivalVars, m_portName, data, m_quit, step, synced, ready, readBuf,
                   wbuf, portOpen, rx, wire, trace, nreads, readsAfterStop,
                   cycleVer, ownerVars>>

\* m_mutex.unlock()
WlUnlock ==
    /\ wpc = "wl_unlock"
    /\ MutexUnlock("worker")
    /\ wpc' = "wl_wait"
    /\ UNCHANGED <<arrivalVars, m_portName, data, m_quit, step, synced, ready, readBuf,
                   wbuf, portOpen, rx, wire, trace, nreads, readsAfterStop,
                   cycleVer, ownerVars>>

\* A variant with the negation of the test dropped.
WriteCycleEventInverted == IF rx = <<>> THEN "WriteComplete" ELSE "Timeout:write"

\* The signal of a write cycle: timeout when waitForReadyRead(40) returned
\* false, writeComplete otherwise.
WriteCycleEvent == IF rx = <<>> THEN "Timeout:write" ELSE "WriteComplete"

\* if (!serial.waitForReadyRead(40)) emit timeout(...)
\* else { serial.readAll(); emit writeComplete(); }
WlWait ==
    /\ wpc = "wl_wait"
    /\ nreads < MaxReads
    /\ trace' = Append(trace, WriteCycleEvent)
    /\ rx' = <<>>
    /\ CountRead
    /\ wpc' = "wl_check"
    /\ UNCHANGED <<arrivalVars, m_portName, data, m_quit, mutex, step, synced, ready,
                   readBuf, wbuf, portOpen, wire, cycleVer, ownerVars>>

\* serial.close(); run() returns
RunClose ==
    /\ wpc = "close"
    /\ portOpen' = FALSE
    /\ trace' = Append(trace, "port:close")
    /\ wpc' = "done"
    /\ UNCHANGED <<arrivalVars, m_portName, data, m_quit, mutex, step, synced, ready,
                   readBuf, wbuf, rx, wire, nreads, readsAfterStop, cycleVer,
                   ownerVars>>

WorkerNext ==
    \/ RunCheckPort
    \/ RunOpen
    \/ HsCheck
    \/ HsClear
    \/ HsWrite
    \/ HsWait
    \/ HsReturn
    \/ WlCheck
    \/ WlLock
    \/ WlCopyByte
    \/ WlWriteDone
    \/ WlUnlock
    \/ WlWait
    \/ RunClose

(***************************************************************************)
(* The owner: changeData and the destructor.                               *)
(***************************************************************************)
\* changeData(newData) is called.
CdCall ==
    /\ opc = "idle"
    /\ Len(hist) < MaxUpdates
    /\ \E v \in NewPayloads(Len(hist) + 1) :
         /\ arg' = v
         /\ hist' = Append(hist, v)
    /\ opc' = "cd_lock"
    /\ UNCHANGED <<arrivalVars, m_portName, data, m_quit, mutex, workerVars, portOpen, rx,
                   wire, trace, nreads, readsAfterStop, cdIdx, returned>>

\* const QMutexLocker locker(&m_mutex)
CdLock ==
    /\ opc = "cd_lock"
    /\ MutexLock("owner")
    /\ cdIdx' = 1
    /\ opc' = "cd_assign"
    /\ UNCHANGED <<arrivalVars, m_portName, data, m_quit, workerVars, portOpen, rx, wire,
                   trace, nreads, readsAfterStop, arg, hist, returned>>

\* data = newData, one byte after the other
CdCopyByte ==
    /\ opc = "cd_assign"
    /\ cdIdx <= Len(arg)
    /\ data' = IF cdIdx <= Len(data)
                 THEN [data EXCEPT ![cdIdx] = arg[cdIdx]]
                 ELSE Append(data, arg[cdIdx])
    /\ cdIdx' = cdIdx + 1
    /\ UNCHANGED <<arrivalVars, m_portName, m_quit, mutex, workerVars, portOpen, rx, wire,
                   trace, nreads, readsAfterStop, opc, arg, hist, returned>>

\* data = newData: the length becomes that of newData
CdCopyDone ==
    /\ opc = "cd_assign"
    /\ cdIdx > Len(arg)
    /\ data' = SubSeq(data, 1, Len(arg))
    /\ cdIdx' = 0
    /\ opc' = "cd_unlock"
    /\ UNCHANGED <<arrivalVars, m_portName, m_quit, mutex, workerVars, portOpen, rx, wire,
                   trace, nreads, readsAfterStop, arg, hist, returned>>

\* m_cond.wakeOne() (no thread ever waits on m_cond), then the locker
\* releases the mutex and changeData returns.
CdUnlock ==
    /\ opc = "cd_unlock"
    /\ MutexUnlock("owner")
    /\ returned' = returned + 1
    /\ arg' = <<>>
    /\ opc' = "idle"
    /\ UNCHANGED <<arrivalVars, m_portName, data, m_quit, workerVars, portOpen, rx, wire,
                   trace, nreads, readsAfterStop, cdIdx, hist>>

\* ~SerialPortWriter: m_mutex.lock()
DtLock ==
    /\ opc = "idle"
    /\ MutexLock("owner")
    /\ opc' = "dt_set"
    /\ UNCHANGED <<arrivalVars, m_portName, data, m_quit, workerVars, portOpen, rx, wire,
                   trace, nreads, readsAfterStop, arg, cdIdx, hist, returned>>

\* A variant of the destructor that also empties the payload.
DtSetQuitClearsData ==
    /\ opc = "dt_set"
    /\ m_quit' = TRUE
    /\ data' = <<>>
    /\ opc' = "dt_unlock"
    /\ UNCHANGED <<arrivalVars, m_portName, mutex, workerVars, portOpen, rx, wire,
                   trace, nreads, readsAfterStop, arg, cdIdx, hist, returned>>

\* m_quit = true; m_cond.wakeOne()
DtSetQuit ==
    /\ opc = "dt_set"
    /\ m_quit' = TRUE
    /\ opc' = "dt_unlock"
    /\ UNCHANGED <<arrivalVars, m_portName, data, mutex, workerVars, portOpen, rx, wire,
                   trace, nreads, readsAfterStop, arg, cdIdx, hist, returned>>

\* m_mutex.unlock()
DtUnlock ==
    /\ opc = "dt_unlock"
    /\ MutexUnlock("owner")
    /\ opc' = "dt_wait"
    /\ UNCHANGED <<arrivalVars, m_portName, data, m_quit, workerVars, portOpen, rx, wire,
                   trace, nreads, readsAfterStop, arg, cdIdx, hist, returned>>

\* wait() returns once run() has returned
DtWait ==
    /\ opc = "dt_wait"
    /\ wpc = "done"
    /\ opc' = "joined"
    /\ UNCHANGED <<arrivalVars, m_portName, data, m_quit, mutex, workerVars, portOpen, rx,
                   wire, trace, nreads, readsAfterStop, arg, cdIdx, hist,
                   returned>>

OwnerNext ==
    \/ CdCall
    \/ CdLock
    \/ CdCopyByte
    \/ CdCopyDone
    \/ CdUnlock
    \/ DtLock
    \/ DtSetQuit
    \/ DtUnlock
    \/ DtWait

(***************************************************************************)
(* The device: a byte arrives at the open port.                            *)
(***************************************************************************)
DeviceSend ==
    /\ portOpen
    /\ Len(rx) < MaxRx
    /\ \E b \in DeviceBytes : rx' = Append(rx, b)
    /\ staleLast' = FALSE
    /\ UNCHANGED <<discarded, preClear, m_portName, data, m_quit, mutex, workerVars, portOpen,
                   wire, trace, nreads, readsAfterStop, ownerVars>>

Next == WorkerNext \/ OwnerNext \/ DeviceSend

Spec == Init /\ [][Next]_vars

\* Both threads are scheduled and every blocking call returns: the worker
\* goes on while it can, and the owner finishes the call it is in.  The
\* device, and the owner's decision to call changeData or the destructor, are
\* free.
OwnerInCall ==
    \/ CdLock \/ CdCopyByte \/ CdCopyDone \/ CdUnlock
    \/ DtSetQuit \/ DtUnlock \/ DtWait

FairSpec ==
    /\ Spec
    /\ WF_vars(WorkerNext)
    /\ WF_vars(OwnerInCall)

(***************************************************************************)
(* The accesses to the shared members: the thread at this position reads   *)
(* or writes the member in its next step.                                  *)
(***************************************************************************)
\* run(): the two loop conditions read m_quit
WorkerReadsQuit == wpc \in {"hs_check", "wl_check"}

\* run(): serial.write(data) reads data
WorkerReadsData == wpc = "wl_write"

\* changeData: data = newData
OwnerWritesData == opc = "cd_assign"

\* ~SerialPortWriter: m_quit = true
OwnerWritesQuit == opc = "dt_set"

(***************************************************************************)
(* Vocabulary of the properties.                                           *)
(***************************************************************************)
\* What the handshake phase sends and emits.
HandshakeEvents ==
    {ProbeSent[n] : n \in 1..NumSteps} \cup {StageInfo[n] : n \in 1..NumSteps}
      \cup {StageTimeout[n] : n \in 2..NumSteps} \cup {"Info:synced"}

\* What the write loop sends and emits, and the close that follows it.
WriteLoopEvents == {"send:data", "Timeout:write", "WriteComplete", "port:close"}

\* The events the step from this state to the next one adds to the trace.
NewEvents == {trace'[i] : i \in (Len(trace) + 1)..Len(trace')}

Count(e) == Cardinality({i \in 1..Len(trace) : trace[i] = e})

\* The read of the step in progress did not end in the expected byte.
FailedRead == ~ready \/ readBuf = <<>> \/ Last(readBuf) # sync_resp[step]

\* The payload after k calls of changeData.
PayloadVersion(k) == IF k = 0 THEN InitPayload ELSE hist[k]

\* The blocking reads the worker may still complete once m_quit is set: the
\* steps of a handshake pass, or the read of one write cycle.
ReadsLeftToStop == IF synced THEN 1 ELSE NumSteps

\* m_quit is set and the reads the worker may still need fit in MaxReads.
StopWithinBudget == m_quit /\ nreads + ReadsLeftToStop <= MaxReads

(***************************************************************************)
(* C1.  Once m_quit is set the worker starts no further handshake step     *)
(* (sends no probe) and emits no further notification of the handshake     *)
(* phase (stage complete, handshake timeout, synced).                      *)
(* The code tests m_quit only at the head of a pass and emits "Synced      *)
(* successfully" whenever the handshake loop is left: TLC refutes this.    *)
(***************************************************************************)
C1_NoHandshakeActivityAfterStop ==
    [][m_quit => NewEvents \cap HandshakeEvents = {}]_vars

(***************************************************************************)
(* C2.  "Synced successfully" is emitted only when step 3 has just         *)
(* succeeded: the event before it is "Handshake stage 3 complete".         *)
(* The code emits it also when m_quit ended the handshake loop: refuted.   *)
(***************************************************************************)
C2_SyncedOnlyAfterStage3 ==
    \A i \in 1..Len(trace) :
        trace[i] = "Info:synced" => i > 1 /\ trace[i - 1] = StageInfo[3]

(***************************************************************************)
(* C3.  After m_quit is set the worker completes at most one more blocking *)
(* read before it terminates.                                              *)
(* A pass that has begun runs its remaining steps: refuted.                *)
(***************************************************************************)
C3_AtMostOneReadAfterStop == readsAfterStop <= 1

(***************************************************************************)
(* C4.  After the destructor has set m_quit the worker terminates and      *)
(* wait() returns, whatever the worker was doing and whatever the device   *)
(* sends, when both threads are scheduled and every blocking read returns  *)
(* (FairSpec).  The reads counted by the model are bounded by MaxReads, so *)
(* the property is stated for stops that leave room for the reads the      *)
(* worker may still need: those of one handshake pass, or of one write     *)
(* cycle once it has synced.                                               *)
(***************************************************************************)
C4_StopThenJoinTerminates ==
    StopWithinBudget ~> (wpc = "done" /\ opc = "joined")

\* The worker was stopped in the write loop with a read in flight, and joined.
C4_Witness ==
    /\ opc = "joined"
    /\ wpc = "done"
    /\ synced
    /\ Count("send:data") >= 1
    /\ readsAfterStop >= 1

(***************************************************************************)
(* C5.  Every payload write transmits, in full, a value the payload held:  *)
(* the value as of the changeData calls that had returned when the write   *)
(* cycle began, or a newer one; never a mixture of two values.             *)
(***************************************************************************)
C5_WriteIsWholeCurrentPayload ==
    wpc = "wl_unlock" =>
        \E k \in cycleVer..Len(hist) : wire = PayloadVersion(k)

\* A write cycle that began after changeData returned has written its value.
C5_Witness ==
    /\ wpc = "wl_unlock"
    /\ cycleVer >= 1
    /\ wire = hist[cycleVer]
    /\ wire # InitPayload

(***************************************************************************)
(* C6.  Every read and every write of data and of m_quit, by the worker    *)
(* and by the owner, is made by a thread that holds m_mutex.               *)
(* Both loop conditions of run() read m_quit without the mutex: refuted.   *)
(***************************************************************************)
C6_AllAccessesUnderMutex ==
    /\ (WorkerReadsQuit \/ WorkerReadsData) => "worker" \in mutex
    /\ (OwnerWritesData \/ OwnerWritesQuit) => "owner" \in mutex

(***************************************************************************)
(* C7.  A failed read at step 2 or 3 emits exactly one Timeout naming that *)
(* stage and nothing else, and ends the pass; in the trace a probe of step *)
(* 2 or 3 is followed by that stage's Info or Timeout, and the Timeout is  *)
(* followed by the probe of step 1 or by the end of the handshake, never   *)
(* by the probe of step 2 or 3.                                            *)
(***************************************************************************)
C7_FailureStep ==
    (wpc = "h_ret" /\ wpc' # "h_ret" /\ step \in 2..NumSteps /\ FailedRead)
        => /\ trace' = Append(trace, StageTimeout[step])
           /\ wpc' = "hs_check"
           /\ ~synced'

C7_TraceOrder ==
    \A i \in 1..(Len(trace) - 1) : \A n \in 2..NumSteps :
        /\ trace[i] = ProbeSent[n]
              => trace[i + 1] \in {StageInfo[n], StageTimeout[n]}
        /\ trace[i] = StageTimeout[n]
              => trace[i + 1] \in {ProbeSent[1], "Info:synced"}

C7_FailureRestartsAtStep1 == [][C7_FailureStep /\ C7_TraceOrder']_vars

\* Step 3 failed, its Timeout was emitted and step 1 was probed again.
C7_Witness ==
    \E i \in 1..(Len(trace) - 1) :
        trace[i] = StageTimeout[3] /\ trace[i + 1] = ProbeSent[1]

(***************************************************************************)
(* C8.  Once step 3 has succeeded (synced = true) the worker sends no      *)
(* handshake probe and emits no stage or handshake-timeout notification    *)
(* again: "Synced successfully" follows at once and after it there are     *)
(* only payload writes, their notifications and the close of the port.     *)
(***************************************************************************)
C8_NoHandshakeAfterSynced ==
    \A i \in 1..Len(trace) :
        trace[i] = StageInfo[3] =>
            \A j \in (i + 1)..Len(trace) :
                IF j = i + 1 THEN trace[j] = "Info:synced"
                ELSE trace[j] \in WriteLoopEvents

\* Synced, then two write cycles that timed out.
C8_Witness == synced /\ Count("Timeout:write") >= 2

(***************************************************************************)
(* C9.  A handshake step succeeds (its stage-complete Info is emitted) if  *)
(* and only if the wait returned at least one byte and the last byte read  *)
(* is the step's expected response; the bytes read are those received      *)
(* since the clear, and no byte within the window is a failure.            *)
(***************************************************************************)
C9_ReadStep ==
    (wpc = "h_wait" /\ wpc' = "h_ret")
        => /\ ready' = (rx # <<>>)
           /\ Len(rx) <= ReadBufSize => readBuf' = rx

C9_DecideStep ==
    (wpc = "h_ret" /\ wpc' # "h_ret")
        => /\ (trace' = Append(trace, StageInfo[step])) = ~FailedRead
           /\ FailedRead => (wpc' = "hs_check" /\ synced' = synced)

C9_SuccessIffLastByteMatches == [][C9_ReadStep /\ C9_DecideStep]_vars

\* Step 3 read two bytes, the first wrong and the last the expected one.
C9_Witness ==
    /\ wpc = "h_ret"
    /\ step = 3
    /\ Len(readBuf) = 2
    /\ readBuf[1] # sync_resp[3]
    /\ readBuf[2] = sync_resp[3]

(***************************************************************************)
(* C10.  With an empty port name the worker emits the one Error            *)
(* notification and nothing else, never opens the port, writes nothing to  *)
(* it and reads nothing, and terminates: its one step is always enabled    *)
(* and leads to the end of run().                                          *)
(***************************************************************************)
C10_EmptyPortName ==
    m_portName = "" =>
        /\ wpc \in {"run", "done"}
        /\ trace = IF wpc = "done" THEN <<"Error:noport">> ELSE <<>>
        /\ ~portOpen
        /\ wire = <<>>
        /\ nreads = 0
        /\ wpc = "done" \/ ENABLED RunCheckPort

\* The worker has returned after the Error and the destructor has joined it.
C10_Witness ==
    /\ m_portName = ""
    /\ wpc = "done"
    /\ opc = "joined"
    /\ trace = <<"Error:noport">>

(***************************************************************************)
(* C11.  When serial.open fails the worker emits the one Error             *)
(* notification and returns: the port is opened at most once, and a worker *)
(* that has returned without ever having had the port open has emitted     *)
(* nothing but that Error, no Info, and has sent no probe and no payload.  *)
(***************************************************************************)
C11_OpenStep ==
    (wpc = "open" /\ wpc' # "open" /\ ~portOpen')
        => /\ trace' = trace \o <<"port:open", "Error:open">>
           /\ wpc' = "done"

C11_FailedOpenState ==
    /\ Count("port:open") <= 1
    /\ (m_portName # "" /\ Count("port:open") = 1 /\ Count("Info:opened") = 0)
          => /\ trace = <<"port:open", "Error:open">>
             /\ wpc = "done"
             /\ ~portOpen
             /\ wire = <<>>
             /\ nreads = 0

C11_OpenFailureIsFatal == [][C11_OpenStep /\ C11_FailedOpenState']_vars

\* The open failed, the worker returned and the destructor joined it.
C11_Witness ==
    /\ trace = <<"port:open", "Error:open">>
    /\ wpc = "done"
    /\ opc = "joined"

(***************************************************************************)
(* C12.  Once the port is open no Error notification is emitted, and the   *)
(* worker leaves its loops (closes the port, returns) only when m_quit is  *)
(* set, whatever number of handshake failures and write-cycle timeouts it  *)
(* has seen.                                                               *)
(***************************************************************************)
C12_TimeoutsAreNotFatal ==
    Count("Info:opened") >= 1 =>
        /\ Count("Error:open") = 0
        /\ Count("Error:noport") = 0
        /\ wpc \in {"close", "done"} => m_quit

\* Two write cycles have timed out and the worker, not stopped, goes on.
C12_Witness ==
    /\ ~m_quit
    /\ Count("Timeout:write") >= 2
    /\ wpc = "wl_lock"

(***************************************************************************)
(* C13.  Every write cycle writes the payload once and then emits exactly  *)
(* one notification: Timeout when no byte arrived within the window,       *)
(* WriteComplete when any byte arrived, whatever the bytes are, which are  *)
(* discarded; then the loop tests m_quit and goes on to the next cycle     *)
(* unless it is set.                                                       *)
(***************************************************************************)
C13_WaitStep ==
    (wpc = "wl_wait" /\ wpc' # "wl_wait")
        => /\ trace' = Append(trace, IF Len(rx) = 0 THEN "Timeout:write"
                                     ELSE "WriteComplete")
           /\ rx' = <<>>
           /\ wpc' = "wl_check"

C13_LoopStep ==
    (wpc = "wl_check" /\ wpc' # "wl_check")
        => wpc' = IF m_quit THEN "close" ELSE "wl_lock"

C13_CycleOrder ==
    \A i \in 1..(Len(trace) - 1) :
        /\ trace[i] = "send:data"
              => trace[i + 1] \in {"Timeout:write", "WriteComplete"}
        /\ trace[i] \in {"Timeout:write", "WriteComplete"}
              => trace[i + 1] \in {"send:data", "port:close"}

C13_OneNotificationPerCycle ==
    [][C13_WaitStep /\ C13_LoopStep /\ C13_CycleOrder']_vars

\* A cycle that timed out was followed by a cycle that got an answer.
C13_Witness ==
    \E i \in 1..(Len(trace) - 3) :
        /\ trace[i] = "send:data"
        /\ trace[i + 1] = "Timeout:write"
        /\ trace[i + 2] = "send:data"
        /\ trace[i + 3] = "WriteComplete"

\* s is a prefix of t.
IsPrefix(s, t) == Len(s) <= Len(t) /\ SubSeq(t, 1, Len(s)) = s

\* The events of one handshake pass in which every step succeeds.
GoodPass ==
    <<"send:probe1", "Info:stage1", "send:probe2", "Info:stage2",
      "send:probe3", "Info:stage3">>

\* The events up to the first handshake pass.
Opened == <<"port:open", "Info:opened", "Info:synchronizing">>

(***************************************************************************)
(* C14 (scenario A).  When the device answers each probe of the first pass *)
(* with the expected byte, the worker runs step 1, 2 and 3 once each and   *)
(* is synced: the trace is the opening, then probe and stage-complete Info *)
(* of the stages 1, 2, 3 in this order, then "Synced successfully", with   *)
(* no Timeout before it.                                                   *)
(***************************************************************************)
\* nreads = step: every read so far was a read of this pass and succeeded.
C14_Step ==
    (wpc = "h_ret" /\ wpc' # "h_ret" /\ nreads = step /\ ~FailedRead)
        => /\ trace' = Opened \o SubSeq(GoodPass, 1, 2 * step)
           /\ IF step < NumSteps
                THEN wpc' = "h_clear" /\ step' = step + 1 /\ ~synced'
                ELSE wpc' = "hs_check" /\ synced'

C14_Synced ==
    (synced /\ Count("send:probe1") = 1)
        => /\ IsPrefix(Opened \o GoodPass, trace)
           /\ Len(trace) > 9 => trace[10] = "Info:synced"
           /\ wpc # "hs_check" => Len(trace) > 9
           /\ \A n \in 1..NumSteps : Count(StageTimeout[n]) = 0

C14_FirstTryHandshake == [][C14_Step /\ C14_Synced']_vars

\* Synced after three reads, not stopped, "Synced successfully" emitted.
C14_Witness ==
    /\ synced
    /\ ~m_quit
    /\ nreads = NumSteps
    /\ trace = Opened \o GoodPass \o <<"Info:synced">>

(***************************************************************************)
(* C15 (scenario B).  When step 2 of the first pass gets no response and   *)
(* every step of the second pass succeeds, with m_quit unset, the          *)
(* handshake emits exactly one Timeout, naming stage 2, and after it runs  *)
(* step 1, 2 and 3 again in order and is synced.                           *)
(***************************************************************************)
FirstPassFailedAt2 ==
    Opened \o <<"send:probe1", "Info:stage1", "send:probe2", "Timeout:stage2">>

\* Read 2 is step 2 of the first pass; reads 3, 4, 5 are the second pass.
C15_Step ==
    (wpc = "h_ret" /\ wpc' # "h_ret")
        => /\ (nreads = 2 /\ step = 2 /\ ~ready)
                 => trace' = FirstPassFailedAt2 /\ wpc' = "hs_check"
           /\ (nreads = 2 + step /\ IsPrefix(FirstPassFailedAt2, trace)
                 /\ ~FailedRead)
                 => /\ trace' = FirstPassFailedAt2
                                  \o SubSeq(GoodPass, 1, 2 * step)
                    /\ synced' = (step = NumSteps)

C15_Retry ==
    (wpc = "hs_check" /\ wpc' # "hs_check" /\ trace = FirstPassFailedAt2
       /\ ~m_quit)
        => wpc' = "h_clear" /\ step' = 1 /\ trace' = trace

C15_Synced ==
    IsPrefix(FirstPassFailedAt2 \o GoodPass, trace)
        => /\ synced
           /\ Count("Timeout:stage2") = 1
           /\ Count("Timeout:stage3") = 0
           /\ Len(trace) > 13 => trace[14] = "Info:synced"

C15_RetryAfterStage2Timeout == [][C15_Step /\ C15_Retry /\ C15_Synced']_vars

\* The second pass has synced and "Synced successfully" was emitted.
C15_Witness ==
    /\ synced
    /\ ~m_quit
    /\ nreads = 5
    /\ trace = FirstPassFailedAt2 \o GoodPass \o <<"Info:synced">>

\* The notifications of the trace: the signals, without the port operations.
PortOps ==
    {ProbeSent[n] : n \in 1..NumSteps} \cup {"send:data", "port:open", "port:close"}

Notifications(t) == SelectSeq(t, LAMBDA e : e \notin PortOps)

(***************************************************************************)
(* C16.  A failed step 1 emits no notification and ends the pass; the loop *)
(* test that follows starts step 1 again, or ends the handshake when       *)
(* m_quit is set.  In the trace the probe of step 1 is followed by its     *)
(* stage-complete Info, by the probe of step 1 again or by the end of the  *)
(* handshake, so that consecutive failures of step 1 add no notification.  *)
(***************************************************************************)
C16_FailStep ==
    (wpc = "h_ret" /\ wpc' # "h_ret" /\ step = 1 /\ FailedRead)
        => /\ trace' = trace
           /\ wpc' = "hs_check"
           /\ step' = 0
           /\ synced' = synced

C16_RetryStep ==
    (wpc = "hs_check" /\ wpc' # "hs_check" /\ ~synced)
        => /\ ~m_quit => (wpc' = "h_clear" /\ step' = 1 /\ trace' = trace)
           /\ m_quit => wpc' = "wl_check"

C16_ProbeOrder ==
    /\ \A i \in 1..(Len(trace) - 1) :
          trace[i] = ProbeSent[1]
              => trace[i + 1] \in {StageInfo[1], ProbeSent[1], "Info:synced"}
    /\ (IsPrefix(Opened, trace) /\ Count(StageInfo[1]) = 0
          /\ Count("Info:synced") = 0)
          => Notifications(trace) = Notifications(Opened)

C16_Step1FailsSilently ==
    [][C16_FailStep /\ C16_RetryStep /\ C16_ProbeOrder']_vars

\* Step 1 has failed three times in a row and is being tried again.
C16_Witness ==
    /\ trace = Opened \o <<"send:probe1", "send:probe1", "send:probe1",
                            "send:probe1">>
    /\ nreads = 3

(***************************************************************************)
(* C17.  The worker holds m_mutex only around serial.write(data): it never *)
(* holds it while it waits for a response, in the handshake or in the      *)
(* write loop, so that changeData and the destructor, when they ask for    *)
(* the mutex during such a wait, get it at once.                           *)
(***************************************************************************)
C17_NoLockAcrossBlockingRead ==
    /\ "worker" \in mutex => wpc \in {"wl_write", "wl_unlock"}
    /\ wpc \in {"h_wait", "wl_wait"} =>
          /\ "worker" \notin mutex
          /\ opc = "cd_lock" => ENABLED CdLock
          /\ opc = "idle" => ENABLED DtLock

\* changeData holds the mutex while the worker waits for a response.
C17_Witness ==
    /\ wpc = "wl_wait"
    /\ opc = "cd_assign"
    /\ mutex = {"owner"}

(***************************************************************************)
(* C18 - The buffers are cleared before each probe.  As written, the claim *)
(* says that a byte which arrived before the probe of the current step was *)
(* sent never decides the outcome of that step.  clear() (line 37) comes   *)
(* before write() (line 38), so a byte that arrives between the two is in  *)
(* the buffer when the probe goes out and is the last byte read.           *)
(***************************************************************************)
C18_DecidingRead == wpc = "h_wait" /\ wpc' = "h_ret" /\ rx # <<>>

C18_NoByteFromBeforeTheProbeDecides ==
    [][C18_DecidingRead => ~staleLast]_vars

(***************************************************************************)
(* C18, as the code has it: clear() empties the receive buffer before the  *)
(* probe is written, so a byte that arrived before the buffers of the      *)
(* current step were cleared is never among the bytes the step reads and   *)
(* never decides its outcome; the probe is written only after the clear.   *)
(***************************************************************************)
C18_ClearStep == wpc = "h_clear" /\ wpc' = "h_write"

C18_ProbeStep ==
    trace' # trace /\ \E i \in 1..NumSteps : Last(trace') = ProbeSent[i]

C18_NoByteFromBeforeTheClearDecides ==
    [][/\ C18_ClearStep => (rx' = <<>> /\ discarded' = Len(rx))
       /\ C18_ProbeStep => (wpc = "h_write" /\ preClear = 0)
       /\ C18_DecidingRead => preClear = 0]_vars

\* The clear of a later step dropped a byte that had arrived before it, the
\* probe went out, and a byte that arrived after the probe awaits the read.
C18_Witness ==
    /\ wpc = "h_wait"
    /\ step >= 2
    /\ discarded >= 1
    /\ rx # <<>>
    /\ ~staleLast
(***************************************************************************)
(* C19.  The payload reaches the port only after a handshake pass whose    *)
(* three steps all succeeded: a payload write, a WriteComplete or a        *)
(* Timeout of a write cycle is preceded in the trace by the events of such *)
(* a pass.  When m_quit is set before or during the handshake, the worker  *)
(* never enters a write cycle: the write loop's test sends it to the close *)
(* and no payload write, WriteComplete or write-cycle Timeout follows.     *)
(***************************************************************************)
C19_WriteEvents == {"send:data", "WriteComplete", "Timeout:write"}

C19_InHandshake ==
    wpc \in {"run", "open", "hs_check", "h_clear", "h_write", "h_wait", "h_ret"}

C19_InWriteCycle == wpc \in {"wl_lock", "wl_write", "wl_unlock", "wl_wait"}

C19_PassBeforeWrite ==
    \A i \in 1..Len(trace) :
        trace[i] \in C19_WriteEvents
            => \E j \in 1..(i - Len(GoodPass)) :
                  SubSeq(trace, j, j + Len(GoodPass) - 1) = GoodPass

C19_StoppedStep ==
    /\ (m_quit /\ C19_InHandshake)
          => (C19_InHandshake' \/ wpc' \in {"wl_check", "done"})
               /\ NewEvents \cap C19_WriteEvents = {}
    /\ (m_quit /\ wpc = "wl_check")
          => wpc' \in {"wl_check", "close"}
               /\ NewEvents \cap C19_WriteEvents = {}
    /\ wpc \in {"close", "done"}
          => wpc' \in {"close", "done"}
               /\ NewEvents \cap C19_WriteEvents = {}
    /\ C19_InWriteCycle' => (C19_InWriteCycle \/ (wpc = "wl_check" /\ ~m_quit))

C19_NoPayloadWithoutHandshake ==
    [][C19_StoppedStep /\ C19_PassBeforeWrite']_vars

\* Stopped during the handshake, the worker has closed the port and ended
\* without a payload write.
C19_Witness ==
    /\ wpc = "done"
    /\ m_quit
    /\ ~synced
    /\ nreads >= 1
    /\ Count("port:close") = 1
    /\ \A e \in C19_WriteEvents : Count(e) = 0
(***************************************************************************)
(* C20.  m_quit is monotonic and the two owner operations do not interfere. *)
(* No step sets m_quit back to false; once run() has returned the worker   *)
(* stays where it is and nothing more is sent or emitted; a step of        *)
(* changeData leaves m_quit, the worker's position and state, the port and *)
(* the trace as they are; a step of the destructor leaves data as it is.   *)
(***************************************************************************)
C20_ChangeDataStep ==
    /\ ownerVars' # ownerVars
    /\ opc \in {"cd_lock", "cd_assign", "cd_unlock"} \/ opc' = "cd_lock"

C20_DestructorStep ==
    /\ ownerVars' # ownerVars
    /\ opc' \in {"dt_set", "dt_unlock", "dt_wait", "joined"}

C20_Step ==
    /\ m_quit => m_quit'
    /\ wpc = "done"
          => /\ wpc' = "done"
             /\ UNCHANGED <<trace, wire, portOpen, step, synced>>
    /\ C20_ChangeDataStep
          => UNCHANGED <<m_quit, workerVars, trace, wire, portOpen, m_portName>>
    /\ C20_DestructorStep => data' = data
    /\ data' # data => C20_ChangeDataStep
    /\ m_quit' # m_quit => C20_DestructorStep

C20_OwnerCommandsDoNotInterfere == [][C20_Step]_vars

\* changeData has returned, the destructor has stopped and joined the
\* worker, and the payload is still the one changeData set.
C20_Witness ==
    /\ opc = "joined"
    /\ wpc = "done"
    /\ m_quit
    /\ returned >= 1
    /\ data = hist[returned]
    /\ Count("send:data") >= 1
=============================================================================
